---- MODULE Spec2Model ----
(***************************************************************************)
(* A model of smart_subs.py: the subtitle acquisition run (main and the    *)
(* functions it calls), the SRT block parser with its two converters, and  *)
(* the time codec.                                                         *)
(*                                                                         *)
(* Text is modelled as a sequence of one-character strings, so that        *)
(* splitting, stripping, regular-expression matching, integer parsing and  *)
(* formatting are computed character by character as the Python code       *)
(* computes them.  Floating-point seconds are modelled as whole            *)
(* milliseconds; the one place where the binary representation decides     *)
(* the outcome (a two-decimal rounding tie) is a nondeterministic choice.  *)
(***************************************************************************)
EXTENDS Integers, Sequences, FiniteSets, TLC

VARIABLES
  \* ---- the acquisition run (main) ----
  url,                \* os.environ.get("URL"): "" when absent
  langs,              \* os.environ["LANGS"], a character sequence
  probeOut,           \* what `yt-dlp --list-subs` prints on stdout
  pc,                 \* position of main
  hasSubs,            \* has_subs: "unset", "true" or "false"
  subs,               \* files of the output directory "subs"
  audio,              \* files of the staging directory "audio"
  calls,              \* external commands run so far: <<[tool, rc], ...>>
  exitCode,           \* -1 while running, then the process exit code
  error,              \* what ended the run, "none" if nothing
  lrcRuns,            \* subtitle files srt_to_lrc was called on
  txtRuns,            \* subtitle files srt_to_txt was called on
  warnings,           \* conversion warnings printed: <<file, "lrc"|"txt">>
  placeholderWritten, \* subs/EMPTY.txt was written by this run
  \* ---- one conversion of one subtitle file ----
  blocks,             \* the blocks the file content was assembled from
  trailer,            \* the newlines that follow the last block
  content,            \* the file content
  ppc,                \* position of the conversion
  entries,            \* re.findall(...) of the content
  lrcOut,             \* content written to the .lrc file
  txtOut,             \* content written to the .txt file
  \* ---- the time codec ----
  tsA, tsB,           \* two timestamps, as fields [h, m, s, ms]
  tpc,                \* position
  secA, secB,         \* srt_time_to_seconds of each, in milliseconds
  tagA                \* seconds_to_lrc_time(secA)

runVars == <<url, langs, probeOut, pc, hasSubs, subs, audio, calls, exitCode,
             error, lrcRuns, txtRuns, warnings, placeholderWritten>>
convVars == <<blocks, trailer, content, ppc, entries, lrcOut, txtOut>>
timeVars == <<tsA, tsB, tpc, secA, secB, tagA>>
vars == <<runVars, convVars, timeVars>>

(***************************************************************************)
(* Characters and strings.                                                 *)
(***************************************************************************)
Digits == {"0", "1", "2", "3", "4", "5", "6", "7", "8", "9"}

\* str.isspace / the regular expression class \s, on the characters used here
IsSpace(c) == c \in {" ", "\n", "\t"}

IsDigit(c) == c \in Digits

DigitVal(c) ==
  CASE c = "0" -> 0 [] c = "1" -> 1 [] c = "2" -> 2 [] c = "3" -> 3
    [] c = "4" -> 4 [] c = "5" -> 5 [] c = "6" -> 6 [] c = "7" -> 7
    [] c = "8" -> 8 [] c = "9" -> 9

DigitChar(d) ==
  CASE d = 0 -> "0" [] d = 1 -> "1" [] d = 2 -> "2" [] d = 3 -> "3"
    [] d = 4 -> "4" [] d = 5 -> "5" [] d = 6 -> "6" [] d = 7 -> "7"
    [] d = 8 -> "8" [] d = 9 -> "9"

Drop(s, n) == SubSeq(s, n + 1, Len(s))

Take(s, n) == SubSeq(s, 1, n)

RECURSIVE LStrip(_)
LStrip(s) == IF s # <<>> /\ IsSpace(Head(s)) THEN LStrip(Tail(s)) ELSE s

RECURSIVE RStrip(_)
RStrip(s) ==
  IF s # <<>> /\ IsSpace(s[Len(s)]) THEN RStrip(Take(s, Len(s) - 1)) ELSE s

\* str.strip()
Strip(s) == RStrip(LStrip(s))

\* index of the first occurrence of the character sep in s, 0 if none
RECURSIVE IndexOf(_, _, _)
IndexOf(s, sep, i) ==
  IF i > Len(s) THEN 0
  ELSE IF s[i] = sep THEN i
  ELSE IndexOf(s, sep, i + 1)

\* str.split(sep) for a one-character separator: "" splits to <<"">>
RECURSIVE Split(_, _)
Split(s, sep) ==
  LET i == IndexOf(s, sep, 1)
  IN  IF i = 0 THEN <<s>>
      ELSE <<Take(s, i - 1)>> \o Split(Drop(s, i), sep)

\* str.replace(a, b) for one-character a and b
Replace(s, a, b) == [i \in 1..Len(s) |-> IF s[i] = a THEN b ELSE s[i]]

\* sep.join(parts)
RECURSIVE Join(_, _)
Join(parts, sep) ==
  IF parts = <<>> THEN <<>>
  ELSE IF Len(parts) = 1 THEN parts[1]
  ELSE parts[1] \o <<sep>> \o Join(Tail(parts), sep)

\* int(s) for a string of decimal digits
RECURSIVE ParseInt(_)
ParseInt(s) ==
  IF s = <<>> THEN 0
  ELSE 10 * ParseInt(Take(s, Len(s) - 1)) + DigitVal(s[Len(s)])

\* str(n) for n >= 0
RECURSIVE IntStr(_)
IntStr(n) ==
  IF n < 10 THEN <<DigitChar(n)>>
  ELSE IntStr(n \div 10) \o <<DigitChar(n % 10)>>

\* zero padding on the left up to width w (the 0w of a format specification)
RECURSIVE ZeroPad(_, _)
ZeroPad(s, w) == IF Len(s) >= w THEN s ELSE ZeroPad(<<"0">> \o s, w)

(***************************************************************************)
(* The availability prober: check_subtitles.                               *)
(***************************************************************************)
\* The values LANGS takes here: the default of main, one pattern, a list with
\* blanks around an item, the empty string, a list ending in a comma, and a
\* string that is no regular expression.
LangsDefault == <<"z", "h", "-", "H", "a", "n", "s", ",", "z", "h", "-", "H", "a", "n", "t", ",", "e", "n", ".", "*">>
LangsEn == <<"e", "n", ".", "*">>
LangsSpaced == <<"j", "a", ",", " ", "e", "n">>
LangsEmpty == <<>>
LangsTrailingComma == <<"e", "n", ",">>
LangsBad == <<"*">>
LangsChoices ==
  {LangsDefault, LangsEn, LangsSpaced, LangsEmpty, LangsTrailingComma, LangsBad}

\* What the listing command prints: nothing, a listing with an English
\* track, a listing with a traditional Chinese track, a message only.
OutEmpty == <<>>
OutEn == <<"L", "a", "n", "g", "u", "a", "g", "e", "\n", "e", "n", " ", "v", "t", "t", "\n">>
OutZh == <<"z", "h", "-", "H", "a", "n", "t", " ", "v", "t", "t", "\n">>
OutNone == <<"n", "o", " ", "s", "u", "b", "s", "\n">>
ProbeOutputs == {OutEmpty, OutEn, OutZh, OutNone}

\* re.compile(p) succeeds, for patterns of literal characters, "." and "*":
\* a "*" with nothing to repeat raises re.error
CompileOk(p) == \A i \in 1..Len(p) : p[i] = "*" => (i > 1 /\ p[i - 1] # "*")

\* one pattern character against one text character ("." is any character
\* but a newline)
CharMatch(a, c) == IF a = "." THEN c # "\n" ELSE a = c

\* the pattern re matches a prefix of the text t
RECURSIVE MatchHere(_, _)
MatchHere(re, t) ==
  IF re = <<>> THEN TRUE
  ELSE IF Len(re) >= 2 /\ re[2] = "*"
    THEN \E k \in 0..Len(t) :
           /\ \A j \in 1..k : CharMatch(re[1], t[j])
           /\ MatchHere(Drop(re, 2), Drop(t, k))
  ELSE /\ t # <<>>
       /\ CharMatch(re[1], t[1])
       /\ MatchHere(Tail(re), Tail(t))

\* pattern.search(line): a match starting anywhere in the line
PatternSearch(re, line) ==
  \E i \in 0..Len(line) : MatchHere(re, Drop(line, i))

\* lang_patterns, before compilation: [lang.strip() for lang in langs.split(',')]
LangPatterns(l) ==
  LET parts == Split(l, ",") IN [i \in 1..Len(parts) |-> Strip(parts[i])]

\* check_subtitles on the listing's stdout: "error" when a pattern does not
\* compile, "true" when some line matches some pattern, "false" otherwise
check_subtitles(stdout, l) ==
  LET pats == LangPatterns(l)
      lines == Split(stdout, "\n")
  IN  IF \E i \in 1..Len(pats) : ~CompileOk(pats[i]) THEN "error"
      ELSE IF \E n \in 1..Len(lines) :
                \E i \in 1..Len(pats) : PatternSearch(pats[i], lines[n])
        THEN "true"
      ELSE "false"

(***************************************************************************)
(* Files and external commands.                                            *)
(***************************************************************************)
\* the most subtitle files one external command writes
MaxSrt == 2

\* A file of a directory: its stem and its extension.  Stem 0 stands for the
\* stem "EMPTY", stems 1.. for the titles the tools derive file names from.
File(stem, ext) == [stem |-> stem, ext |-> ext]

\* Path("subs/EMPTY.txt")
Placeholder == File(0, "txt")

\* Path(dir).glob("*.srt")
SrtFiles(dir) == {f \in dir : f.ext = "srt"}

\* what the subtitle download may write: subtitle files, and a track that
\* is not converted (a live chat replay)
DownloadOutputs == {File(i, "srt") : i \in 1..MaxSrt} \cup {File(1, "json")}

\* what the transcription may write
WhisperOutputs == {File(i, "srt") : i \in 1..MaxSrt}

\* what the audio download may write
AudioOutputs == {File(1, "m4a")}

\* what the two directories may hold from an earlier run (mkdir exist_ok)
PreSubs == {Placeholder, File(1, "srt")}
PreAudio == {File(1, "m4a")}

\* exit codes of an external command
ExitCodes == {0, 1}

\* run_cmd: subprocess.run(cmd, check=check) raises CalledProcessError
\* (a run_cmd that ignores the exit code, to show what rests on check=True)
RaisesNever(rc, check) == FALSE
Raises(rc, check) == check /\ rc # 0

Call(tool, rc) == [tool |-> tool, rc |-> rc]

(***************************************************************************)
(* The acquisition run: main under the handler of __main__.                *)
(***************************************************************************)
RunInit ==
  /\ url \in {"", "u"}
  /\ langs \in LangsChoices
  /\ probeOut \in ProbeOutputs
  /\ pc = "start"
  /\ hasSubs = "unset"
  /\ subs \in SUBSET PreSubs
  /\ audio \in SUBSET PreAudio
  /\ calls = <<>>
  /\ exitCode = -1
  /\ error = "none"
  /\ lrcRuns = {}
  /\ txtRuns = {}
  /\ warnings = {}
  /\ placeholderWritten = FALSE

\* an exception reaches the handler of __main__, or main calls sys.exit(1)
Fatal(err) ==
  /\ pc' = "exit"
  /\ exitCode' = 1
  /\ error' = err

\* main, up to the missing-URL exit
ReadEnv ==
  /\ pc = "start"
  /\ IF url = ""
       THEN Fatal("MissingInput")
       ELSE pc' = "probe" /\ UNCHANGED <<exitCode, error>>
  /\ UNCHANGED <<url, langs, probeOut, hasSubs, subs, audio, calls, lrcRuns,
                 txtRuns, warnings, placeholderWritten>>

\* the branch of main on has_subs
\* (a branch that always generates, to show what rests on the test of has_subs)
SelectGenerate(has) == "generate"
SelectPath(has) == IF has = "true" THEN "download" ELSE "generate"

\* has_subs = check_subtitles(...), then the branch of main
CheckSubtitles ==
  /\ pc = "probe"
  /\ \E rc \in ExitCodes :
       LET r == check_subtitles(probeOut, langs) IN
       /\ calls' = Append(calls, Call("list-subs", rc))
       /\ IF Raises(rc, FALSE) THEN Fatal("ExternalToolFailure") /\ UNCHANGED hasSubs
          ELSE IF r = "error" THEN Fatal("PatternError") /\ UNCHANGED hasSubs
          ELSE /\ hasSubs' = r
               /\ pc' = SelectPath(r)
               /\ UNCHANGED <<exitCode, error>>
  /\ UNCHANGED <<url, langs, probeOut, subs, audio, lrcRuns, txtRuns, warnings,
                 placeholderWritten>>

\* download_subtitles
DownloadSubtitles ==
  /\ pc = "download"
  /\ \E rc \in ExitCodes, written \in SUBSET DownloadOutputs :
       /\ calls' = Append(calls, Call("download-subs", rc))
       /\ subs' = subs \cup written
       /\ IF Raises(rc, TRUE) THEN Fatal("ExternalToolFailure")
          ELSE pc' = "postprocess" /\ UNCHANGED <<exitCode, error>>
  /\ UNCHANGED <<url, langs, probeOut, hasSubs, audio, lrcRuns, txtRuns,
                 warnings, placeholderWritten>>

\* `if not audio_files` of generate_subtitles
\* (a missing test of the staging directory)
AudioNeverMissing(dir) == FALSE
AudioMissing(dir) == dir = {}

\* generate_subtitles, up to the choice of the audio file
DownloadAudio ==
  /\ pc = "generate"
  /\ \E rc \in ExitCodes, written \in SUBSET AudioOutputs :
       /\ calls' = Append(calls, Call("download-audio", rc))
       /\ audio' = audio \cup written
       /\ IF Raises(rc, TRUE) THEN Fatal("ExternalToolFailure")
          ELSE IF AudioMissing(audio') THEN Fatal("NoAudioDownloaded")
          ELSE pc' = "whisper" /\ UNCHANGED <<exitCode, error>>
  /\ UNCHANGED <<url, langs, probeOut, hasSubs, subs, lrcRuns, txtRuns,
                 warnings, placeholderWritten>>

\* generate_subtitles, the transcription
Transcribe ==
  /\ pc = "whisper"
  /\ \E rc \in ExitCodes, written \in SUBSET WhisperOutputs :
       /\ calls' = Append(calls, Call("whisper", rc))
       /\ subs' = subs \cup written
       /\ IF Raises(rc, TRUE) THEN Fatal("ExternalToolFailure")
          ELSE pc' = "postprocess" /\ UNCHANGED <<exitCode, error>>
  /\ UNCHANGED <<url, langs, probeOut, hasSubs, audio, lrcRuns, txtRuns,
                 warnings, placeholderWritten>>

\* One turn of the loop of convert_subs_to_all_formats on the file f, where
\* st holds the directory, the converter calls and the warnings so far;
\* lrcFails and txtFails are the files on which each converter raises.
\* (a loop body with one try around both converters: a failure of the first
\* skips the second)
ConvertFileAbort(st, f, lrcFails, txtFails) ==
  IF f \in lrcFails
    THEN [st EXCEPT !.lrc = @ \cup {f}, !.warn = @ \cup {<<f, "lrc">>}]
  ELSE IF f \in txtFails
    THEN [st EXCEPT !.lrc = @ \cup {f}, !.txt = @ \cup {f},
                    !.dir = @ \cup {File(f.stem, "lrc")},
                    !.warn = @ \cup {<<f, "txt">>}]
  ELSE [st EXCEPT !.lrc = @ \cup {f}, !.txt = @ \cup {f},
                  !.dir = @ \cup {File(f.stem, "lrc"), File(f.stem, "txt")}]
ConvertFile(st, f, lrcFails, txtFails) ==
  LET afterLrc ==
        IF f \in lrcFails
          THEN [st EXCEPT !.lrc = @ \cup {f}, !.warn = @ \cup {<<f, "lrc">>}]
          ELSE [st EXCEPT !.lrc = @ \cup {f},
                          !.dir = @ \cup {File(f.stem, "lrc")}]
  IN  IF f \in txtFails
        THEN [afterLrc EXCEPT !.txt = @ \cup {f},
                              !.warn = @ \cup {<<f, "txt">>}]
        ELSE [afterLrc EXCEPT !.txt = @ \cup {f},
                              !.dir = @ \cup {File(f.stem, "txt")}]

\* the loop of convert_subs_to_all_formats over the files todo
RECURSIVE ConvertLoop(_, _, _, _)
ConvertLoop(st, todo, lrcFails, txtFails) ==
  IF todo = {} THEN st
  ELSE LET f == CHOOSE x \in todo : TRUE
       IN  ConvertLoop(ConvertFile(st, f, lrcFails, txtFails), todo \ {f},
                       lrcFails, txtFails)

\* convert_subs_to_all_formats(dir): the directory, the converter calls and
\* the warnings after it.  Without a subtitle file it returns at once.
convert_subs_to_all_formats(st, lrcFails, txtFails) ==
  LET srt_files == SrtFiles(st.dir)
  IN  IF srt_files = {} THEN st
      ELSE ConvertLoop(st, srt_files, lrcFails, txtFails)

\* `if not list(Path("subs").glob("*"))` of main
\* (a main that never writes the placeholder)
NeverNeedsPlaceholder(dir) == FALSE
NeedsPlaceholder(dir) == dir = {}

\* main after the acquisition: the conversions, the placeholder that keeps
\* the output directory non-empty, the listing of the directory and the
\* normal return.  Both paths have created "subs" by now, and `ls -lh` of a
\* directory that exists exits 0.
PostProcess ==
  /\ pc = "postprocess"
  /\ \E lrcFails \in SUBSET SrtFiles(subs), txtFails \in SUBSET SrtFiles(subs) :
       LET st == convert_subs_to_all_formats(
                   [dir |-> subs, lrc |-> lrcRuns, txt |-> txtRuns,
                    warn |-> warnings], lrcFails, txtFails)
       IN  /\ lrcRuns' = st.lrc
           /\ txtRuns' = st.txt
           /\ warnings' = st.warn
           /\ IF NeedsPlaceholder(st.dir)
                THEN subs' = st.dir \cup {Placeholder} /\ placeholderWritten' = TRUE
                ELSE subs' = st.dir /\ UNCHANGED placeholderWritten
  /\ calls' = Append(calls, Call("ls", 0))
  /\ pc' = "exit"
  /\ exitCode' = 0
  /\ UNCHANGED <<url, langs, probeOut, hasSubs, audio, error>>

(***************************************************************************)
(* The time codec.                                                         *)
(***************************************************************************)
\* A string the pattern \d{2}:\d{2}:\d{2},\d{3} accepts, from its fields
FormatTs(h, m, sec, ms) ==
  ZeroPad(IntStr(h), 2) \o <<":">> \o ZeroPad(IntStr(m), 2) \o <<":">>
    \o ZeroPad(IntStr(sec), 2) \o <<",">> \o ZeroPad(IntStr(ms), 3)

\* srt_time_to_seconds, in milliseconds: the result of the code is this
\* number divided by 1000
\* (a conversion that forgets the factor 60 of the minutes)
MinuteAsSecond(time_str) ==
  LET t == Strip(time_str)
      hms == Split(t, ":")
      sms == Split(hms[3], ",")
  IN  (ParseInt(hms[1]) * 3600 + ParseInt(hms[2]) + ParseInt(sms[1])) * 1000
        + ParseInt(sms[2])
srt_time_to_seconds(time_str) ==
  LET t == Strip(time_str)
      hms == Split(t, ":")
      sms == Split(hms[3], ",")
  IN  (ParseInt(hms[1]) * 3600 + ParseInt(hms[2]) * 60 + ParseInt(sms[1])) * 1000
        + ParseInt(sms[2])

\* The float format .2f on a number of whole milliseconds, in hundredths.
\* The digit after the second decimal decides, except when it is a 5 and
\* nothing follows.  Then a fraction that is a multiple of 1/8 is held
\* exactly by the float and is rounded to the even neighbour; any other is
\* held slightly above or below the tie and rounds up (up = TRUE) or down.
RoundCentis(ms, up) ==
  LET q == ms \div 10
      r == ms % 10
  IN  IF r > 5 THEN q + 1
      ELSE IF r < 5 THEN q
      ELSE IF ms % 125 = 0 THEN (IF q % 2 = 0 THEN q ELSE q + 1)
      ELSE IF up THEN q + 1
      ELSE q

\* seconds_to_lrc_time on a number of milliseconds: f"[{minutes:02d}:{secs:05.2f}]"
seconds_to_lrc_time(ms, up) ==
  LET minutes == ms \div 60000
      secs == ms % 60000
      centis == RoundCentis(secs, up)
  IN  <<"[">> \o ZeroPad(IntStr(minutes), 2) \o <<":">>
        \o ZeroPad(IntStr(centis \div 100) \o <<".">>
                     \o ZeroPad(IntStr(centis % 100), 2), 5)
        \o <<"]">>

\* field values of the timestamps tried: all within two digits (three for the
\* milliseconds), minutes and seconds both below and from 60 on
HourVals == {0, 99}
MinuteVals == {0, 1, 59, 60}
SecondVals == {0, 59, 60, 99}
MilliVals == {0, 5, 125, 996, 999}

Timestamps ==
  {FormatTs(h, m, sec, ms) :
     h \in HourVals, m \in MinuteVals, sec \in SecondVals, ms \in MilliVals}

TimeInit ==
  /\ tsA \in Timestamps
  /\ tsB \in Timestamps
  /\ tpc = "parse"
  /\ secA = 0
  /\ secB = 0
  /\ tagA = <<>>

\* seconds = srt_time_to_seconds(start_time), on both timestamps
ToSeconds ==
  /\ tpc = "parse"
  /\ secA' = srt_time_to_seconds(tsA)
  /\ secB' = srt_time_to_seconds(tsB)
  /\ tpc' = "format"
  /\ UNCHANGED <<tsA, tsB, tagA>>

\* time_tag = seconds_to_lrc_time(seconds)
ToLrcTime ==
  /\ tpc = "format"
  /\ \E up \in BOOLEAN : tagA' = seconds_to_lrc_time(secA, up)
  /\ tpc' = "done"
  /\ UNCHANGED <<tsA, tsB, secA, secB>>

(***************************************************************************)
(* The subtitle parser and the two converters.                             *)
(***************************************************************************)
\* the most blocks of a file content, and the most newlines after the last
MaxBlocks == 3
MaxTrailer == 2

\* The shapes of a block: an index line, a timestamp line and one text line
\* ("good") or two ("multi"); no text line ("notext"); a text line that is a
\* blank only ("blank"); text alone, with no index or timestamp line ("junk").
BlockKinds == {"good", "multi", "notext", "blank", "junk"}

BlockStart(i) == FormatTs(0, 0, i, 0)

BlockEnd(i) == FormatTs(0, 0, i, 500)

BlockBody(kind) ==
  CASE kind = "good" -> <<"H", "i">>
    [] kind = "multi" -> <<"H", "i", "\n", "y", "o">>
    [] kind = "blank" -> <<" ">>
    [] OTHER -> <<>>

\* the text of the block at position i of the file
BlockText(kind, i) ==
  IF kind = "junk" THEN <<"x", "x">>
  ELSE IntStr(i) \o <<"\n">> \o BlockStart(i)
         \o <<" ", "-", "-", ">", " ">> \o BlockEnd(i)
         \o (IF kind = "notext" THEN <<>> ELSE <<"\n">> \o BlockBody(kind))

\* the blocks from position i on, a blank line between two blocks
RECURSIVE JoinBlocks(_, _)
JoinBlocks(bs, i) ==
  IF i > Len(bs) THEN <<>>
  ELSE BlockText(bs[i], i)
         \o (IF i < Len(bs) THEN <<"\n", "\n">> ELSE <<>>)
         \o JoinBlocks(bs, i + 1)

FileContent(bs, n) == JoinBlocks(bs, 1) \o [j \in 1..n |-> "\n"]

\* number of characters from position p on that satisfy the class
RECURSIVE DigitRun(_, _)
DigitRun(c, p) ==
  IF p <= Len(c) /\ IsDigit(c[p]) THEN 1 + DigitRun(c, p + 1) ELSE 0

RECURSIVE SpaceRun(_, _)
SpaceRun(c, p) ==
  IF p <= Len(c) /\ IsSpace(c[p]) THEN 1 + SpaceRun(c, p + 1) ELSE 0

\* \d{2}:\d{2}:\d{2},\d{3} matches at position p
TsAt(c, p) ==
  /\ p + 11 <= Len(c)
  /\ \A j \in {0, 1, 3, 4, 6, 7, 9, 10, 11} : IsDigit(c[p + j])
  /\ c[p + 2] = ":"
  /\ c[p + 5] = ":"
  /\ c[p + 8] = ","

\* --> matches at position p
ArrowAt(c, p) ==
  p + 2 <= Len(c) /\ c[p] = "-" /\ c[p + 1] = "-" /\ c[p + 2] = ">"

\* the lookahead (?=\n\n|\n*$) holds at position q: a blank line follows, or
\* nothing but newlines up to the end of the string
Lookahead(c, q) ==
  \/ q + 1 <= Len(c) /\ c[q] = "\n" /\ c[q + 1] = "\n"
  \/ \A j \in q..Len(c) : c[j] = "\n"

\* the end of the lazy group (.*?) that starts at q, under re.DOTALL: the
\* first position from q on where the lookahead holds (it holds at the end
\* of the string at the latest)
RECURSIVE TextEnd(_, _)
TextEnd(c, q) == IF Lookahead(c, q) THEN q ELSE TextEnd(c, q + 1)

\* The pattern of srt_to_lrc and srt_to_txt,
\*   (\d+)\s+(TS)\s+-->\s+(TS)\s+(.*?)(?=\n\n|\n*$),
\* tried at position p.  Each greedy \d+ and \s+ takes its whole run: a
\* shorter one would leave a digit where \s is needed, or a blank where a
\* digit or "-" is needed, so backtracking into it cannot succeed; and the
\* lazy group always finds an end, so the last \s+ is never shortened.
MatchAt(c, p) ==
  LET d == DigitRun(c, p)
      p1 == p + d
      w1 == SpaceRun(c, p1)
      p2 == p1 + w1
      p3 == p2 + 12
      w2 == SpaceRun(c, p3)
      p4 == p3 + w2
      p5 == p4 + 3
      w3 == SpaceRun(c, p5)
      p6 == p5 + w3
      p7 == p6 + 12
      w4 == SpaceRun(c, p7)
      p8 == p7 + w4
  IN  IF /\ d >= 1 /\ w1 >= 1 /\ TsAt(c, p2)
         /\ w2 >= 1 /\ ArrowAt(c, p4)
         /\ w3 >= 1 /\ TsAt(c, p6)
         /\ w4 >= 1
        THEN LET q == TextEnd(c, p8)
             IN  [ok |-> TRUE, next |-> q,
                  entry |-> [index |-> SubSeq(c, p, p1 - 1),
                             start |-> SubSeq(c, p2, p3 - 1),
                             end |-> SubSeq(c, p6, p7 - 1),
                             text |-> SubSeq(c, p8, q - 1)]]
        ELSE [ok |-> FALSE, next |-> p + 1, entry |-> <<>>]

\* re.findall(pattern, content, re.DOTALL): the matches from left to right,
\* each search resuming where the last match ended
RECURSIVE FindAll(_, _)
FindAll(c, p) ==
  IF p > Len(c) THEN <<>>
  ELSE LET m == MatchAt(c, p)
       IN  IF m.ok THEN <<m.entry>> \o FindAll(c, m.next)
           ELSE FindAll(c, p + 1)

\* lrc_lines of srt_to_lrc
RECURSIVE LrcLines(_, _)
LrcLines(es, up) ==
  IF es = <<>> THEN <<>>
  ELSE LET time_tag == seconds_to_lrc_time(srt_time_to_seconds(es[1].start), up)
           text == Strip(Replace(es[1].text, "\n", " "))
       IN  (IF text # <<>> THEN <<time_tag \o text>> ELSE <<>>)
             \o LrcLines(Tail(es), up)

\* text_lines of srt_to_txt
RECURSIVE TextLines(_)
TextLines(es) ==
  IF es = <<>> THEN <<>>
  ELSE LET text == Strip(es[1].text)
       IN  (IF text # <<>> THEN <<text>> ELSE <<>>) \o TextLines(Tail(es))

ConvInit ==
  /\ blocks \in UNION {[1..n -> BlockKinds] : n \in 0..MaxBlocks}
  /\ trailer \in 0..MaxTrailer
  /\ content = FileContent(blocks, trailer)
  /\ ppc = "lrc"
  /\ entries = <<>>
  /\ lrcOut = <<>>
  /\ txtOut = <<>>

\* srt_to_lrc(srt_file, lrc_file)
SrtToLrc ==
  /\ ppc = "lrc"
  /\ entries' = FindAll(content, 1)
  /\ \E up \in BOOLEAN : lrcOut' = Join(LrcLines(entries', up), "\n")
  /\ ppc' = "txt"
  /\ UNCHANGED <<blocks, trailer, content, txtOut>>

\* srt_to_txt(srt_file, txt_file)
SrtToTxt ==
  /\ ppc = "txt"
  /\ entries' = FindAll(content, 1)
  /\ txtOut' = Join(TextLines(entries'), "\n")
  /\ ppc' = "done"
  /\ UNCHANGED <<blocks, trailer, content, lrcOut>>

(***************************************************************************)
(* The specifications: the run, one file conversion, the time codec.  Each  *)
(* leaves the variables of the other two at rest.                           *)
(***************************************************************************)
RunIdle ==
  /\ url = "" /\ langs = <<>> /\ probeOut = <<>> /\ pc = "off"
  /\ hasSubs = "unset" /\ subs = {} /\ audio = {} /\ calls = <<>>
  /\ exitCode = -1 /\ error = "none" /\ lrcRuns = {} /\ txtRuns = {}
  /\ warnings = {} /\ placeholderWritten = FALSE

ConvIdle ==
  /\ blocks = <<>> /\ trailer = 0 /\ content = <<>> /\ ppc = "off"
  /\ entries = <<>> /\ lrcOut = <<>> /\ txtOut = <<>>

TimeIdle ==
  /\ tsA = <<>> /\ tsB = <<>> /\ tpc = "off" /\ secA = 0 /\ secB = 0
  /\ tagA = <<>>

Init == RunInit /\ ConvIdle /\ TimeIdle

Next ==
  \/ ReadEnv /\ UNCHANGED <<convVars, timeVars>>
  \/ CheckSubtitles /\ UNCHANGED <<convVars, timeVars>>
  \/ DownloadSubtitles /\ UNCHANGED <<convVars, timeVars>>
  \/ DownloadAudio /\ UNCHANGED <<convVars, timeVars>>
  \/ Transcribe /\ UNCHANGED <<convVars, timeVars>>
  \/ PostProcess /\ UNCHANGED <<convVars, timeVars>>

Spec == Init /\ [][Next]_vars

InitConv == RunIdle /\ ConvInit /\ TimeIdle

NextConv ==
  \/ SrtToLrc /\ UNCHANGED <<runVars, timeVars>>
  \/ SrtToTxt /\ UNCHANGED <<runVars, timeVars>>

SpecConv == InitConv /\ [][NextConv]_vars

InitTime == RunIdle /\ ConvIdle /\ TimeInit

NextTime ==
  \/ ToSeconds /\ UNCHANGED <<runVars, convVars>>
  \/ ToLrcTime /\ UNCHANGED <<runVars, convVars>>

SpecTime == InitTime /\ [][NextTime]_vars

(***************************************************************************)
(* Properties of the acquisition run (Spec).                               *)
(***************************************************************************)
\* the commands run so far
Tools(cs) == {cs[i].tool : i \in 1..Len(cs)}

AcquisitionTools == {"download-subs", "download-audio", "whisper"}

\* C1: the probe runs once, its result is never changed afterwards, and it
\* selects one path: after a positive result the subtitle download is the
\* command run next and neither the audio download nor the transcription is
\* ever run; after a negative result the audio download is run next and the
\* subtitle download never; before the result no path command is run.
C1_ProbeSelectsOnePath ==
  /\ [](Cardinality({i \in 1..Len(calls) : calls[i].tool = "list-subs"}) <= 1)
  /\ [][hasSubs # "unset" => hasSubs' = hasSubs]_vars
  /\ [](hasSubs = "unset" => Tools(calls) \cap AcquisitionTools = {})
  /\ [](hasSubs = "true" =>
          /\ Tools(calls) \cap {"download-audio", "whisper"} = {}
          /\ (pc # "download" => "download-subs" \in Tools(calls)))
  /\ [](hasSubs = "false" =>
          /\ "download-subs" \notin Tools(calls)
          /\ (pc # "generate" => "download-audio" \in Tools(calls)))

\* a run that found subtitles, downloaded them and returned normally
C1_Witness ==
  /\ hasSubs = "true"
  /\ pc = "exit"
  /\ exitCode = 0
  /\ "download-subs" \in Tools(calls)

\* C2: when the listing prints nothing, check_subtitles is negative and the
\* subtitle download is not selected, whatever the language list.
C2_EmptyProbeIsNegative ==
  (probeOut = <<>> /\ hasSubs # "unset") =>
    /\ hasSubs = "false"
    /\ pc # "download"
    /\ "download-subs" \notin Tools(calls)

\* C3: when the audio download has returned and the staging directory holds
\* no file, the run has ended with the no-audio error and exit code 1, and
\* no transcription, conversion, placeholder or listing has happened.
C3_NoAudioIsFatal ==
  ((\E i \in 1..Len(calls) : calls[i] = Call("download-audio", 0)) /\ audio = {}) =>
    /\ pc = "exit"
    /\ exitCode = 1
    /\ error = "NoAudioDownloaded"
    /\ Tools(calls) \cap {"whisper", "ls"} = {}
    /\ lrcRuns = {}
    /\ txtRuns = {}
    /\ ~placeholderWritten

\* the audio download exited 0 and left the staging directory empty
C3_Witness ==
  /\ calls # <<>>
  /\ calls[Len(calls)] = Call("download-audio", 0)
  /\ audio = {}
  /\ error = "NoAudioDownloaded"

\* C4, as stated: once a path has completed with no subtitle file in the
\* output directory, the run exits 0 and the directory ends holding the
\* placeholder alone; and a run that exits 0 leaves the directory non-empty.
C4_ZeroSrtLeavesOnlyPlaceholder ==
  /\ [][(pc = "postprocess" /\ SrtFiles(subs) = {}) =>
          (exitCode' = 0 /\ subs' = {Placeholder})]_vars
  /\ [](pc = "exit" /\ exitCode = 0 => subs # {})

\* C4, amended: once a path has completed the run exits 0; if the output
\* directory then holds no file at all it ends holding the placeholder
\* alone; if it holds files but no subtitle file it is left as it is and no
\* placeholder is written; and a run that exits 0 leaves it non-empty.
C4_PlaceholderOnlyWhenEmpty ==
  /\ [][pc = "postprocess" =>
          /\ pc' = "exit"
          /\ exitCode' = 0
          /\ (subs = {} => (subs' = {Placeholder} /\ placeholderWritten'))
          /\ ((SrtFiles(subs) = {} /\ subs # {}) =>
                (subs' = subs /\ ~placeholderWritten'))]_vars
  /\ [](pc = "exit" /\ exitCode = 0 => subs # {})

\* a run that acquired nothing and ended with the placeholder alone
C4_Witness ==
  /\ pc = "exit"
  /\ exitCode = 0
  /\ placeholderWritten
  /\ subs = {Placeholder}
  /\ Tools(calls) \cap {"download-subs", "whisper"} # {}

\* C5: post-processing calls both converters on every subtitle file of the
\* output directory whichever of them fail; each call either writes its
\* file or prints a warning; and the run exits 0.
C5_ConversionFailureIsWarning ==
  [][pc = "postprocess" =>
       /\ pc' = "exit"
       /\ exitCode' = 0
       /\ lrcRuns' = SrtFiles(subs)
       /\ txtRuns' = SrtFiles(subs)
       /\ \A f \in SrtFiles(subs) :
            /\ (File(f.stem, "lrc") \in subs' \/ <<f, "lrc">> \in warnings')
            /\ (File(f.stem, "txt") \in subs' \/ <<f, "txt">> \in warnings')]_vars

\* the lyric conversion of one file failed; its text conversion and both
\* conversions of another file were still made, and the run exited 0
C5_Witness ==
  /\ pc = "exit"
  /\ exitCode = 0
  /\ \E f \in SrtFiles(subs), g \in SrtFiles(subs) :
       /\ f # g
       /\ <<f, "lrc">> \in warnings
       /\ File(f.stem, "lrc") \notin subs
       /\ File(f.stem, "txt") \in subs
       /\ File(g.stem, "lrc") \in subs
       /\ File(g.stem, "txt") \in subs

\* C6: a command other than the probe that exits non-zero is the last
\* command of the run, which exits 1 with no conversion made and no
\* placeholder written.
C6_ToolFailureIsFatal ==
  \A i \in 1..Len(calls) :
    (calls[i].rc # 0 /\ calls[i].tool # "list-subs") =>
      /\ i = Len(calls)
      /\ pc = "exit"
      /\ exitCode = 1
      /\ error = "ExternalToolFailure"
      /\ lrcRuns = {}
      /\ txtRuns = {}
      /\ ~placeholderWritten

\* the probe exited non-zero and the run went on to the transcription,
\* whose non-zero exit ended it
C6_Witness ==
  /\ Len(calls) = 3
  /\ calls[1] = Call("list-subs", 1)
  /\ calls[3] = Call("whisper", 1)
  /\ exitCode = 1

(***************************************************************************)
(* Properties of one file conversion (SpecConv).                           *)
(***************************************************************************)
\* a block with an index line, a timestamp line and at least one text line
WellFormed(kind) == kind \in {"good", "multi"}

\* the entries a parser that yields the well-formed blocks would produce
RECURSIVE WellFormedEntries(_, _)
WellFormedEntries(bs, i) ==
  IF i > Len(bs) THEN <<>>
  ELSE (IF WellFormed(bs[i])
          THEN <<[start |-> BlockStart(i), end |-> BlockEnd(i),
                  text |-> BlockBody(bs[i])]>>
          ELSE <<>>)
         \o WellFormedEntries(bs, i + 1)

\* the matches whose text is not blank, without their index
RECURSIVE EmittedEntries(_)
EmittedEntries(es) ==
  IF es = <<>> THEN <<>>
  ELSE (IF Strip(es[1].text) # <<>>
          THEN <<[start |-> es[1].start, end |-> es[1].end, text |-> es[1].text]>>
          ELSE <<>>)
         \o EmittedEntries(Tail(es))

\* C7: the entries parsed from a content of blank-line-separated blocks are
\* its well-formed blocks, in file order, the other blocks being skipped
\* (a match with blank text, which no converter emits, is not counted).
C7_ParserYieldsWellFormedBlocks ==
  ppc \in {"txt", "done"} =>
    EmittedEntries(entries) = WellFormedEntries(blocks, 1)

\* the lines of a written file
FileLines(out) == IF out = <<>> THEN <<>> ELSE Split(out, "\n")

\* C8: both written files have one line per entry whose trimmed text is
\* not empty, and every lyric line starts with "[".
C8_OneLinePerEntry ==
  ppc = "done" =>
    /\ Len(FileLines(txtOut)) = Len(EmittedEntries(entries))
    /\ Len(FileLines(lrcOut)) = Len(EmittedEntries(entries))
    /\ \A i \in 1..Len(FileLines(lrcOut)) :
         FileLines(lrcOut)[i] # <<>> /\ FileLines(lrcOut)[i][1] = "["

(***************************************************************************)
(* Properties of the time codec (SpecTime).                                *)
(***************************************************************************)
\* the fields of a string the timestamp pattern accepts
TsFields(t) ==
  [h |-> ParseInt(SubSeq(t, 1, 2)), m |-> ParseInt(SubSeq(t, 4, 5)),
   s |-> ParseInt(SubSeq(t, 7, 8)), ms |-> ParseInt(SubSeq(t, 10, 12))]

\* a precedes or equals b field by field: hours, minutes, seconds, milliseconds
FieldsLeq(a, b) ==
  LET x == TsFields(a)
      y == TsFields(b)
  IN  \/ x.h < y.h
      \/ x.h = y.h /\ x.m < y.m
      \/ x.h = y.h /\ x.m = y.m /\ x.s < y.s
      \/ x.h = y.h /\ x.m = y.m /\ x.s = y.s /\ x.ms <= y.ms

\* minutes and seconds are clock fields
ClockFields(t) == TsFields(t).m <= 59 /\ TsFields(t).s <= 59

\* C9, as stated: for any two timestamps the pattern accepts, field order
\* implies the order of the seconds.
C9_MonotonicOnPattern ==
  (tpc # "parse" /\ FieldsLeq(tsA, tsB)) => secA <= secB

\* C9, amended: for any two timestamps the pattern accepts whose minute and
\* second fields are at most 59, field order implies the order of the seconds.
C9_MonotonicOnClockFields ==
  (tpc # "parse" /\ ClockFields(tsA) /\ ClockFields(tsB) /\ FieldsLeq(tsA, tsB))
    => secA <= secB

\* 00:00:59,999 and 00:01:00,000 converted
C9_Witness ==
  /\ tpc # "parse"
  /\ tsA = FormatTs(0, 0, 59, 999)
  /\ tsB = FormatTs(0, 1, 0, 0)
  /\ secA = 59999
  /\ secB = 60000

\* the minute, second and hundredth fields of a lyric tag
TagFields(tag) ==
  LET inner == SubSeq(tag, 2, Len(tag) - 1)
      parts == Split(inner, ":")
      frac == Split(parts[2], ".")
  IN  [mm |-> parts[1], ss |-> frac[1], cc |-> frac[2]]

\* C10: the tag is "[", at least two minute digits, ":", two second digits,
\* ".", two digits, "]"; the minutes are the whole minutes of the time and
\* the seconds field is at most 59.
C10_SecondsFieldBelowSixty ==
  tpc = "done" =>
    /\ tagA[1] = "["
    /\ tagA[Len(tagA)] = "]"
    /\ Len(TagFields(tagA).mm) >= 2
    /\ Len(TagFields(tagA).ss) = 2
    /\ Len(TagFields(tagA).cc) = 2
    /\ ParseInt(TagFields(tagA).mm) = secA \div 60000
    /\ ParseInt(TagFields(tagA).ss) <= 59

====
